---- MODULE Spec2Model ----
(***************************************************************************)
(* Authentication flow of the blog server: registerUser and loginUser of   *)
(* server/controllers/userController.js, run against the credential store  *)
(* (the User model), the passphrase generator and the token issuer.        *)
(*                                                                         *)
(* registerUser is split at its one await (User.create): a request is      *)
(* first accepted (reserved-address check, passphrase generation) and is   *)
(* then in flight until the store answers, so several registrations        *)
(* interleave.  Requests carry no identity of their connection, so the     *)
(* registrations in flight are a bag.  loginUser only reads user           *)
(* documents, which no operation of this flow ever changes, so the whole   *)
(* handler is one action.                                                  *)
(*                                                                         *)
(* Two more parts of the repository are modelled, each with its own        *)
(* specification: the bootstrap of server/index.js (connectDB and          *)
(* initializeApp, BootSpec) and the client's login form                    *)
(* (src/components/LoginForm.tsx, FormSpec).  In each specification the    *)
(* variables of the other parts keep their initial values.  BootFairSpec   *)
(* and FormFairSpec add the fairness of timers and promise continuations,  *)
(* for the properties that say something eventually happens.               *)
(***************************************************************************)
EXTENDS Integers, Sequences, FiniteSets, Bags, TLC

\* Number of registrations that can await the store at the same time.
MaxInFlight == 2

\* JavaScript's undefined: a field that is not present.
UNDEFINED == "undefined"

AdminEmail == "admin@zamanix.com"
AdminPassword == "zamanix_admin"

Emails == {"admin@zamanix.com", "Admin@zamanix.com", "bob@x.com"}
Passwords == {"zamanix_admin", "pw1"}
Names == {"Ann"}
Phones == {"555"}
\* What generatePassphrase can return.
GeneratedPassphrases == {"alpha beta", "gamma delta"}
\* What a login request can carry as passphrase: absent, empty, or a phrase.
RequestPassphrases == {UNDEFINED, ""} \cup GeneratedPassphrases

\* Points of loginUser at which a collaborator can throw.
LoginFaults == {"none", "findOne", "matchPassword", "verifyPassphrase"}
\* Ways User.create can fail besides a duplicate email.
CreateFaults == {"none", "validation", "nomessage"}

VARIABLES
    users,      \* the credential store: a set of user documents
    inflight,   \* the bag of registrations awaiting User.create
    regs,       \* history: the registrations answered 201
    last        \* the exchange (request, response) just completed, until
                \* its response has left the server

serverVars == <<users, inflight, regs, last>>

\* server/index.js
VARIABLES
    bootPc,       \* where initializeApp is: "connecting", "waiting",
                  \* "returned", "listening" or "exited"
    retries,      \* connectDB's parameter retries in the current call
    delay,        \* connectDB's parameter delay in the current call
    attempts,     \* history: the outcome of every mongoose.connect so far
    waits,        \* history: the delays slept through before the retries
    returned,     \* what connectDB returned: "pending", "true" or "false"
    dbConnected,  \* the module's variable dbConnected
    mounted,      \* the /api/blogs and /api/users routers are mounted
    listening,    \* app.listen has been called and the server is open
    listened,     \* history: the server has been listening at some time
    served,       \* history: the routes on which a request was served
    exitCode      \* the code given to process.exit, or NotExited

bootVars == <<bootPc, retries, delay, attempts, waits, returned, dbConnected,
              mounted, listening, listened, served, exitCode>>

\* src/components/LoginForm.tsx
VARIABLES
    isSignup,             \* useState: signup mode (true) or login mode
    showPassphrasePopup,  \* useState: the passphrase popup is the view
    formData,             \* useState: name, email, password, phone, passphrase
    generatedPassphrase,  \* useState: shown under the success message
    error,                \* useState: the error message, '' for none
    success,              \* useState: the success message, '' for none
    loading,              \* useState: disables the submit buttons
    tempLoginData,        \* useState: the credentials kept for the popup
    pending,              \* the bag of signup/login calls being awaited
    timers,               \* the bag of setTimeout(onSuccess) timers, by delay
    onSuccessCalls,       \* history: the number of calls of onSuccess
    successes,            \* history: the number of successful outcomes
    formMounted,          \* the surrounding UI still shows the form
    lastEvent             \* history: what the last step of the form was

formVars == <<isSignup, showPassphrasePopup, formData, generatedPassphrase,
              error, success, loading, tempLoginData, pending, timers,
              onSuccessCalls, successes, formMounted, lastEvent>>

vars == <<serverVars, bootVars, formVars>>

\* ------------------------------------------------------------------------
\* The credential store (models/User.js), from the specification's data model.

\* The email is case-normalized by the schema, on documents and on queries.
NormalizeEmail(email) ==
    IF email = "Admin@zamanix.com" THEN "admin@zamanix.com" ELSE email

\* The password is stored only as an irreversible hash.
HashPassword(password) == "hash(" \o password \o ")"

\* The passphrase is stored in a form that supports verification.
PassphraseMaterial(passphrase) == "material(" \o passphrase \o ")"

NewId(store) == "u" \o ToString(Cardinality(store) + 1)

NoUser == [_id |-> UNDEFINED, name |-> UNDEFINED, email |-> UNDEFINED,
           phone |-> UNDEFINED, password |-> UNDEFINED, passphrase |-> UNDEFINED]

NoError == ""
DuplicateKeyMessage == "E11000 duplicate key error"
ValidationMessage == "User validation failed"

\* A store without the unique index on email: every insert is accepted.
UserCreate_NoUniqueIndex(store, doc, fault) ==
    LET user == [_id |-> NewId(store), name |-> doc.name,
                 email |-> NormalizeEmail(doc.email), phone |-> doc.phone,
                 password |-> HashPassword(doc.password),
                 passphrase |-> PassphraseMaterial(doc.passphrase)]
    IN  IF fault # "none"
          THEN [threw |-> TRUE, message |-> ValidationMessage,
                user |-> NoUser, store |-> store]
        ELSE [threw |-> FALSE, message |-> NoError,
              user |-> user, store |-> store \cup {user}]

\* User.create: one atomic insert, refused by the unique index on email.
\* Returns the outcome, the created document and the store afterwards.
UserCreate(store, doc, fault) ==
    LET email == NormalizeEmail(doc.email)
        user == [_id |-> NewId(store), name |-> doc.name, email |-> email,
                 phone |-> doc.phone, password |-> HashPassword(doc.password),
                 passphrase |-> PassphraseMaterial(doc.passphrase)]
    IN  IF fault = "validation"
          THEN [threw |-> TRUE, message |-> ValidationMessage,
                user |-> NoUser, store |-> store]
        ELSE IF fault = "nomessage"
          THEN [threw |-> TRUE, message |-> NoError,
                user |-> NoUser, store |-> store]
        ELSE IF \E u \in store : u.email = email
          THEN [threw |-> TRUE, message |-> DuplicateKeyMessage,
                user |-> NoUser, store |-> store]
        ELSE [threw |-> FALSE, message |-> NoError,
              user |-> user, store |-> store \cup {user}]

\* User.findOne({ email }): the document with that email, or none.
UserFindOne(store, email) ==
    LET hits == {u \in store : u.email = NormalizeEmail(email)}
    IN  IF hits = {} THEN NoUser ELSE CHOOSE u \in hits : TRUE

\* user.matchPassword(entered)
MatchPassword(user, entered) == user.password = HashPassword(entered)

\* user.verifyPassphrase(entered)
VerifyPassphrase(user, entered) == user.passphrase = PassphraseMaterial(entered)

\* generateToken(id): a bearer token bound to the identifier.
GenerateToken(id) == "jwt:" \o id

\* ------------------------------------------------------------------------
\* Responses

Response(code, status, message, id, name, email, phone, passphrase, token) ==
    [code |-> code, status |-> status, message |-> message, _id |-> id,
     name |-> name, email |-> email, phone |-> phone,
     passphrase |-> passphrase, token |-> token]

ErrorResponse(code, message) ==
    Response(code, "error", message, UNDEFINED, UNDEFINED, UNDEFINED,
             UNDEFINED, UNDEFINED, UNDEFINED)

NoResponse ==
    Response(0, UNDEFINED, UNDEFINED, UNDEFINED, UNDEFINED, UNDEFINED,
             UNDEFINED, UNDEFINED, UNDEFINED)

\* JavaScript truthiness of a string-or-undefined value.
Truthy(v) == v # UNDEFINED /\ v # ""

\* ------------------------------------------------------------------------
\* registerUser

\* The handler without its special case for admin.
IsReservedEmail_Omitted(email) == FALSE

\* The special case for admin: a strict comparison with the literal.
IsReservedEmail(email) == email = AdminEmail

RegisterReservedResponse ==
    ErrorResponse(400, "This email cannot be used for registration")

RegisterSuccessResponse(user, passphrase) ==
    Response(201, "success", "Account created successfully", user._id,
             user.name, user.email, user.phone, passphrase,
             GenerateToken(user._id))

\* The catch block without res.status(400): Express answers 200.
RegisterErrorResponse_NoStatus(message) ==
    Response(200, "error", IF Truthy(message) THEN message
                           ELSE "Failed to create account",
             UNDEFINED, UNDEFINED, UNDEFINED, UNDEFINED, UNDEFINED, UNDEFINED)

\* The catch block: error.message || 'Failed to create account'
RegisterErrorResponse(message) ==
    ErrorResponse(400, IF Truthy(message) THEN message
                       ELSE "Failed to create account")

\* The record of a completed exchange.
Exchange(op, name, email, phone, password, passphrase, threw, calls, wrote, resp) ==
    [op |-> op, name |-> name, email |-> email, phone |-> phone,
     password |-> password, passphrase |-> passphrase, threw |-> threw,
     calls |-> calls, wrote |-> wrote, resp |-> resp]

NoExchange ==
    Exchange("none", UNDEFINED, UNDEFINED, UNDEFINED, UNDEFINED, UNDEFINED,
             FALSE, <<>>, FALSE, NoResponse)

\* The handlers run one continuation at a time on the event loop: a
\* continuation starts once the response of the previous one has been sent.
Ready == last = NoExchange

\* A request arrives: it is refused at once for the reserved address ...
RegisterReserved(name, email, phone, password) ==
    /\ Ready
    /\ IsReservedEmail(email)
    /\ last' = Exchange("register", name, email, phone, password, UNDEFINED,
                        FALSE, <<>>, FALSE, RegisterReservedResponse)
    /\ UNCHANGED <<users, inflight, regs>>
    /\ UNCHANGED <<bootVars, formVars>>

\* ... or a passphrase is generated and User.create is awaited.
RegisterBegin(name, email, phone, password) ==
    /\ Ready
    /\ BagCardinality(inflight) < MaxInFlight
    /\ ~IsReservedEmail(email)
    /\ \E passphrase \in GeneratedPassphrases :
          inflight' = inflight (+) SetToBag({[name |-> name, email |-> email,
                                             phone |-> phone, password |-> password,
                                             passphrase |-> passphrase]})
    /\ UNCHANGED <<users, regs, last>>
    /\ UNCHANGED <<bootVars, formVars>>

\* The store answers: the 201 response, or the catch block's 400.
RegisterCreate(doc) ==
    /\ Ready
    /\ BagIn(doc, inflight)
    /\ \E fault \in CreateFaults :
          LET out == UserCreate(users, doc, fault)
              resp == IF out.threw THEN RegisterErrorResponse(out.message)
                      ELSE RegisterSuccessResponse(out.user, doc.passphrase)
              calls == IF out.threw
                         THEN <<"generatePassphrase", "User.create">>
                         ELSE <<"generatePassphrase", "User.create", "generateToken">>
          IN  /\ users' = out.store
              /\ last' = Exchange("register", doc.name, doc.email, doc.phone,
                                  doc.password, UNDEFINED, out.threw, calls,
                                  out.store # users, resp)
              /\ regs' = IF resp.code = 201
                           THEN regs \cup {[reqEmail |-> doc.email,
                                            password |-> doc.password,
                                            resp |-> resp]}
                           ELSE regs
    /\ inflight' = inflight (-) SetToBag({doc})
    /\ UNCHANGED <<bootVars, formVars>>

\* ------------------------------------------------------------------------
\* loginUser

\* The handler without the administrative bypass.
IsAdminLogin_Disabled(email, password) == FALSE

\* The special case for admin: both literals, compared strictly.
IsAdminLogin(email, password) == email = AdminEmail /\ password = AdminPassword

AdminLoginResponse ==
    Response(200, "success", UNDEFINED, "admin", "Admin", "admin@zamanix.com",
             UNDEFINED, UNDEFINED, "admin_token")

UserNotFoundResponse == ErrorResponse(401, "Invalid email or password")

\* A password mismatch that says so.
PasswordMismatchResponse_Distinct == ErrorResponse(401, "Invalid password")

PasswordMismatchResponse == ErrorResponse(401, "Invalid email or password")

\* A passphrase mismatch reported as a credential mismatch.
InvalidPassphraseResponse_Undifferentiated ==
    ErrorResponse(401, "Invalid email or password")

InvalidPassphraseResponse == ErrorResponse(401, "Invalid passphrase")

\* A catch block that answers as for rejected credentials.
ServerErrorResponse_Unauthorized == ErrorResponse(401, "Invalid email or password")

ServerErrorResponse == ErrorResponse(500, "Server error occurred")

\* A success response that also returns the stored passphrase.
LoginSuccessResponse_EchoPassphrase(user) ==
    Response(200, "success", UNDEFINED, user._id, user.name, user.email,
             user.phone, user.passphrase, GenerateToken(user._id))

LoginSuccessResponse(user) ==
    Response(200, "success", UNDEFINED, user._id, user.name, user.email,
             user.phone, UNDEFINED, GenerateToken(user._id))

\* passphrase !== undefined: an empty passphrase counts as supplied.
PassphraseSupplied_DefinedOnly(passphrase) == passphrase # UNDEFINED

\* passphrase && ... : the passphrase is looked at only when it is truthy.
PassphraseSupplied(passphrase) == Truthy(passphrase)

\* passphrase && user.verifyPassphrase(passphrase): the negation lost.
PassphraseRejected_NoNegation(user, passphrase) ==
    PassphraseSupplied(passphrase) /\ VerifyPassphrase(user, passphrase)

\* passphrase && !user.verifyPassphrase(passphrase)
PassphraseRejected(user, passphrase) ==
    PassphraseSupplied(passphrase) /\ ~VerifyPassphrase(user, passphrase)

Outcome(resp, calls, threw) == [resp |-> resp, calls |-> calls, threw |-> threw]

\* The handler without the check of matchPassword's result.
LoginOutcome_NoPasswordCheck(store, email, password, passphrase, fault) ==
    LET user == UserFindOne(store, email)
        find == <<"User.findOne">>
        match == find \o <<"matchPassword">>
        verify == IF PassphraseSupplied(passphrase)
                    THEN match \o <<"verifyPassphrase">> ELSE match
    IN  IF IsAdminLogin(email, password)
          THEN Outcome(AdminLoginResponse, <<>>, FALSE)
        ELSE IF fault = "findOne"
          THEN Outcome(ServerErrorResponse, find, TRUE)
        ELSE IF user = NoUser
          THEN Outcome(UserNotFoundResponse, find, FALSE)
        ELSE IF fault = "matchPassword"
          THEN Outcome(ServerErrorResponse, match, TRUE)
        ELSE IF PassphraseSupplied(passphrase) /\ fault = "verifyPassphrase"
          THEN Outcome(ServerErrorResponse, verify, TRUE)
        ELSE IF PassphraseRejected(user, passphrase)
          THEN Outcome(InvalidPassphraseResponse, verify, FALSE)
        ELSE Outcome(LoginSuccessResponse(user), verify \o <<"generateToken">>, FALSE)

\* The handler on a store: its response, the collaborators it called, and
\* whether one of them threw.  fault is the call that throws if it is reached.
LoginOutcome(store, email, password, passphrase, fault) ==
    LET user == UserFindOne(store, email)
        find == <<"User.findOne">>
        match == find \o <<"matchPassword">>
        verify == IF PassphraseSupplied(passphrase)
                    THEN match \o <<"verifyPassphrase">> ELSE match
    IN  IF IsAdminLogin(email, password)
          THEN Outcome(AdminLoginResponse, <<>>, FALSE)
        ELSE IF fault = "findOne"
          THEN Outcome(ServerErrorResponse, find, TRUE)
        ELSE IF user = NoUser
          THEN Outcome(UserNotFoundResponse, find, FALSE)
        ELSE IF fault = "matchPassword"
          THEN Outcome(ServerErrorResponse, match, TRUE)
        ELSE IF ~MatchPassword(user, password)
          THEN Outcome(PasswordMismatchResponse, match, FALSE)
        ELSE IF PassphraseSupplied(passphrase) /\ fault = "verifyPassphrase"
          THEN Outcome(ServerErrorResponse, verify, TRUE)
        ELSE IF PassphraseRejected(user, passphrase)
          THEN Outcome(InvalidPassphraseResponse, verify, FALSE)
        ELSE Outcome(LoginSuccessResponse(user), verify \o <<"generateToken">>, FALSE)

LoginUser(email, password, passphrase) ==
    /\ Ready
    /\ \E fault \in LoginFaults :
          LET out == LoginOutcome(users, email, password, passphrase, fault)
          IN  last' = Exchange("login", UNDEFINED, email, UNDEFINED, password,
                               passphrase, out.threw, out.calls, FALSE, out.resp)
    /\ UNCHANGED <<users, inflight, regs>>
    /\ UNCHANGED <<bootVars, formVars>>

\* ------------------------------------------------------------------------

\* res.json(...): the response leaves the server.
ResponseSent ==
    /\ ~Ready
    /\ last' = NoExchange
    /\ UNCHANGED <<users, inflight, regs>>
    /\ UNCHANGED <<bootVars, formVars>>

ServerInit ==
    /\ users = {}
    /\ inflight = EmptyBag
    /\ regs = {}
    /\ last = NoExchange

Next ==
    \/ \E name \in Names, email \in Emails, phone \in Phones,
          password \in Passwords :
          \/ RegisterReserved(name, email, phone, password)
          \/ RegisterBegin(name, email, phone, password)
    \/ \E doc \in BagToSet(inflight) : RegisterCreate(doc)
    \/ \E email \in Emails, password \in Passwords,
          passphrase \in RequestPassphrases :
          LoginUser(email, password, passphrase)
    \/ ResponseSent

\* ------------------------------------------------------------------------
\* server/index.js: connectDB and initializeApp

\* connectDB's default parameters.
DefaultRetries == 5
DefaultDelayMs == 5000

\* Delays are counted in quarters of a millisecond, so that the fractional
\* delays that delay * 1.5 produces (25312.5 ms, 37968.75 ms) are integers.
Ms(n) == 4 * n

NotExited == -1

Routes == {"/api/health", "/api/blogs", "/api/users"}

\* What can throw inside initializeApp's try block once the database is
\* connected: nothing, or a call after the routers are mounted (app.listen).
InitFaults == {"none", "listen"}

\* A retry condition that lets the call with retries = 0 retry once more.
CanRetry_OffByOne(r) == r >= 0

\* if (retries > 0)
CanRetry(r) == r > 0

\* A retry that keeps the delay it was given.
NextDelay_Constant(d) == d

\* delay * 1.5
NextDelay(d) == (d * 3) \div 2

\* An initializeApp that goes on whatever connectDB returned.
MustAbort_Never(connected) == FALSE

\* if (!dbConnected) throw ...
MustAbort(connected) == ~connected

BootInit ==
    /\ bootPc = "connecting"
    /\ retries = DefaultRetries
    /\ delay = Ms(DefaultDelayMs)
    /\ attempts = <<>>
    /\ waits = <<>>
    /\ returned = "pending"
    /\ dbConnected = FALSE
    /\ mounted = FALSE
    /\ listening = FALSE
    /\ listened = FALSE
    /\ served = {}
    /\ exitCode = NotExited

\* await mongoose.connect(...) resolves: connectDB returns true, through
\* every enclosing call.
ConnectSucceeds ==
    /\ bootPc = "connecting"
    /\ attempts' = Append(attempts, "ok")
    /\ returned' = "true"
    /\ bootPc' = "returned"
    /\ UNCHANGED <<retries, delay, waits, dbConnected, mounted, listening,
                   listened, served, exitCode>>
    /\ UNCHANGED <<serverVars, formVars>>

\* await mongoose.connect(...) rejects: the catch block sleeps and retries,
\* or returns false.
ConnectFails ==
    /\ bootPc = "connecting"
    /\ attempts' = Append(attempts, "error")
    /\ IF CanRetry(retries)
         THEN bootPc' = "waiting" /\ returned' = returned
         ELSE bootPc' = "returned" /\ returned' = "false"
    /\ UNCHANGED <<retries, delay, waits, dbConnected, mounted, listening,
                   listened, served, exitCode>>
    /\ UNCHANGED <<serverVars, formVars>>

\* The timer of the catch block fires: connectDB(retries - 1, delay * 1.5).
RetryConnect ==
    /\ bootPc = "waiting"
    /\ waits' = Append(waits, delay)
    /\ retries' = retries - 1
    /\ delay' = NextDelay(delay)
    /\ bootPc' = "connecting"
    /\ UNCHANGED <<attempts, returned, dbConnected, mounted, listening,
                   listened, served, exitCode>>
    /\ UNCHANGED <<serverVars, formVars>>

\* initializeApp after await connectDB(): it throws into its catch block
\* and exits, or mounts the routers and listens.
InitializeApp ==
    /\ bootPc = "returned"
    /\ dbConnected' = (returned = "true")
    /\ \E fault \in InitFaults :
          IF MustAbort(returned = "true")
            THEN /\ exitCode' = 1
                 /\ bootPc' = "exited"
                 /\ UNCHANGED <<mounted, listening, listened>>
          ELSE IF fault = "listen"
            THEN /\ mounted' = TRUE
                 /\ exitCode' = 1
                 /\ bootPc' = "exited"
                 /\ UNCHANGED <<listening, listened>>
          ELSE /\ mounted' = TRUE
               /\ listening' = TRUE
               /\ listened' = TRUE
               /\ bootPc' = "listening"
               /\ UNCHANGED exitCode
    /\ UNCHANGED <<retries, delay, attempts, waits, returned, served>>
    /\ UNCHANGED <<serverVars, formVars>>

\* A request is served: only an open server accepts it, and the routers
\* answer only once mounted.
ServeRequest(route) ==
    /\ listening
    /\ route = "/api/health" \/ mounted
    /\ served' = served \cup {route}
    /\ UNCHANGED <<bootPc, retries, delay, attempts, waits, returned,
                   dbConnected, mounted, listening, listened, exitCode>>
    /\ UNCHANGED <<serverVars, formVars>>

\* SIGTERM or SIGINT: shutdown closes the server and the connection and
\* exits with 0, or with 1 when closing fails.
Shutdown(code) ==
    /\ bootPc = "listening"
    /\ listening' = FALSE
    /\ exitCode' = code
    /\ bootPc' = "exited"
    /\ UNCHANGED <<retries, delay, attempts, waits, returned, dbConnected,
                   mounted, listened, served>>
    /\ UNCHANGED <<serverVars, formVars>>

BootNext ==
    \/ ConnectSucceeds
    \/ ConnectFails
    \/ RetryConnect
    \/ InitializeApp
    \/ \E route \in Routes : ServeRequest(route)
    \/ \E code \in {0, 1} : Shutdown(code)

\* ------------------------------------------------------------------------
\* src/components/LoginForm.tsx

\* Successful outcomes after which signup and login give no further one.
MaxSuccesses == 2

\* What the user can have in each field.
FormNames == {"", "Ann"}
FormEmails == {"", "admin@zamanix.com", "bob@x.com"}
FormPasswords == {"", "pw1"}
FormPhones == {"", "555"}
FormPassphrases == {"", "alpha beta"}

FieldValues(field) ==
    CASE field = "name" -> FormNames
      [] field = "email" -> FormEmails
      [] field = "password" -> FormPasswords
      [] field = "phone" -> FormPhones
      [] field = "passphrase" -> FormPassphrases

\* useState({ name: '', email: '', password: '', phone: '', passphrase: '' })
EmptyForm ==
    [name |-> "", email |-> "", password |-> "", phone |-> "", passphrase |-> ""]

\* useState(null) of tempLoginData
NoLoginData == [email |-> UNDEFINED, password |-> UNDEFINED]

\* signup and login of the user context resolve to a boolean or reject.
CallOutcomes == {"true", "false", "throws"}

SignupDelayMs == 5000
LoginDelayMs == 1500

\* A call of signup or login being awaited.  shown is the formData.passphrase
\* that the continuation of a signup gives to setGeneratedPassphrase.
Request(kind, name, email, password, phone, passphrase, shown) ==
    [kind |-> kind, name |-> name, email |-> email, password |-> password,
     phone |-> phone, passphrase |-> passphrase, shown |-> shown]

\* A step of the form: the handler, the operation it was about, how it
\* ended, the delay of the timer it set or that fired, and for a successful
\* signup the passphrase the server generated.
Event(type, kind, outcome, ms, passphrase) ==
    [type |-> type, kind |-> kind, outcome |-> outcome, ms |-> ms,
     passphrase |-> passphrase]

\* The inputs of the view being rendered.
VisibleFields ==
    IF showPassphrasePopup THEN {"passphrase"}
    ELSE IF isSignup THEN {"name", "phone", "email", "password"}
    ELSE {"email", "password"}

\* !formData.name || !formData.email || !formData.password || !formData.phone
SignupIncomplete(fd) ==
    ~Truthy(fd.name) \/ ~Truthy(fd.email) \/ ~Truthy(fd.password)
        \/ ~Truthy(fd.phone)

\* !formData.email || !formData.password
LoginIncomplete(fd) == ~Truthy(fd.email) \/ ~Truthy(fd.password)

\* A form that asks every login for a passphrase.
IsAdminEmail_Never(email) == FALSE

\* formData.email === 'admin@zamanix.com'
IsAdminEmail(email) == email = "admin@zamanix.com"

SuccessMessage(kind) ==
    IF kind = "signup"
      THEN "Account created successfully! Please save your passphrase:"
    ELSE "Login successful!"

FailureMessage(kind) ==
    CASE kind = "signup" -> "Failed to create account"
      [] kind = "adminLogin" -> "Invalid credentials"
      [] kind = "passphraseLogin" -> "Invalid passphrase"

\* One delay for every success.
SuccessDelay_Same(kind) == LoginDelayMs

\* The delay given to setTimeout with onSuccess.
SuccessDelay(kind) == IF kind = "signup" THEN SignupDelayMs ELSE LoginDelayMs

\* A dismissal that empties the whole form.
DismissFormData_ResetAll(fd) == EmptyForm

\* setFormData(prev => ({ ...prev, passphrase: '' }))
DismissFormData(fd) == [fd EXCEPT !.passphrase = ""]

\* A toggle that keeps the email typed so far.
ToggleFormData_KeepEmail(fd) == [EmptyForm EXCEPT !.email = fd.email]

\* setFormData({ name: '', email: '', password: '', phone: '', passphrase: '' })
ToggleFormData(fd) == EmptyForm

FormInit ==
    /\ isSignup = FALSE
    /\ showPassphrasePopup = FALSE
    /\ formData = EmptyForm
    /\ generatedPassphrase = ""
    /\ error = ""
    /\ success = ""
    /\ loading = FALSE
    /\ tempLoginData = NoLoginData
    /\ pending = EmptyBag
    /\ timers = EmptyBag
    /\ onSuccessCalls = 0
    /\ successes = 0
    /\ formMounted = TRUE
    /\ lastEvent = Event("none", "none", "none", 0, UNDEFINED)

\* handleInputChange
HandleInputChange(field, value) ==
    /\ formMounted
    /\ field \in VisibleFields
    /\ formData' = [formData EXCEPT ![field] = value]
    /\ error' = ""
    /\ success' = ""
    /\ lastEvent' = Event("input", "none", "none", 0, UNDEFINED)
    /\ UNCHANGED <<isSignup, showPassphrasePopup, generatedPassphrase, loading,
                   tempLoginData, pending, timers, onSuccessCalls, successes,
                   formMounted>>
    /\ UNCHANGED <<serverVars, bootVars>>

\* handleSubmit up to its return, its await or its end.  The form of the
\* main view is submitted through its button, which loading disables.
HandleSubmit ==
    /\ formMounted
    /\ ~showPassphrasePopup
    /\ ~loading
    /\ success' = ""
    /\ IF isSignup
         THEN IF SignupIncomplete(formData)
                THEN /\ error' = "All fields are required"
                     /\ loading' = FALSE
                     /\ lastEvent' = Event("submit", "signup", "error", 0, UNDEFINED)
                     /\ UNCHANGED <<pending, tempLoginData, showPassphrasePopup>>
              ELSE /\ error' = ""
                   /\ loading' = TRUE
                   /\ pending' = pending (+) SetToBag({
                          Request("signup", formData.name, formData.email,
                                  formData.password, formData.phone, UNDEFINED,
                                  formData.passphrase)})
                   /\ lastEvent' = Event("submit", "signup", "awaiting", 0, UNDEFINED)
                   /\ UNCHANGED <<tempLoginData, showPassphrasePopup>>
       ELSE IF LoginIncomplete(formData)
         THEN /\ error' = "Email and password are required"
              /\ loading' = FALSE
              /\ lastEvent' = Event("submit", "login", "error", 0, UNDEFINED)
              /\ UNCHANGED <<pending, tempLoginData, showPassphrasePopup>>
       ELSE IF IsAdminEmail(formData.email)
         THEN /\ error' = ""
              /\ loading' = TRUE
              /\ pending' = pending (+) SetToBag({
                     Request("adminLogin", UNDEFINED, formData.email,
                             formData.password, UNDEFINED, UNDEFINED, UNDEFINED)})
              /\ lastEvent' = Event("submit", "adminLogin", "awaiting", 0, UNDEFINED)
              /\ UNCHANGED <<tempLoginData, showPassphrasePopup>>
       ELSE /\ error' = ""
            /\ loading' = FALSE
            /\ tempLoginData' = [email |-> formData.email,
                                 password |-> formData.password]
            /\ showPassphrasePopup' = TRUE
            /\ lastEvent' = Event("submit", "login", "popup", 0, UNDEFINED)
            /\ UNCHANGED pending
    /\ UNCHANGED <<isSignup, formData, generatedPassphrase, timers,
                   onSuccessCalls, successes, formMounted>>
    /\ UNCHANGED <<serverVars, bootVars>>

\* handlePassphraseSubmit up to its await.  The popup's form is submitted
\* through its button, which loading disables, and its input is required.
HandlePassphraseSubmit ==
    /\ formMounted
    /\ showPassphrasePopup
    /\ ~loading
    /\ formData.passphrase # ""
    /\ tempLoginData # NoLoginData
    /\ loading' = TRUE
    /\ error' = ""
    /\ pending' = pending (+) SetToBag({
           Request("passphraseLogin", UNDEFINED, tempLoginData.email,
                   tempLoginData.password, UNDEFINED, formData.passphrase,
                   UNDEFINED)})
    /\ lastEvent' = Event("passphraseSubmit", "passphraseLogin", "awaiting", 0,
                          UNDEFINED)
    /\ UNCHANGED <<isSignup, showPassphrasePopup, formData, generatedPassphrase,
                   success, tempLoginData, timers, onSuccessCalls, successes,
                   formMounted>>
    /\ UNCHANGED <<serverVars, bootVars>>

\* The awaited signup or login settles: the rest of handleSubmit or of
\* handlePassphraseSubmit, with its finally block.
Resume(req, outcome) ==
    /\ BagIn(req, pending)
    /\ outcome = "true" => successes < MaxSuccesses
    /\ pending' = pending (-) SetToBag({req})
    /\ loading' = FALSE
    /\ IF outcome = "true"
         THEN /\ success' = SuccessMessage(req.kind)
              /\ generatedPassphrase' =
                    IF req.kind = "signup" THEN req.shown ELSE generatedPassphrase
              /\ timers' = timers (+) SetToBag({SuccessDelay(req.kind)})
              /\ successes' = successes + 1
              /\ \E p \in IF req.kind = "signup" THEN GeneratedPassphrases
                          ELSE {UNDEFINED} :
                    lastEvent' = Event("resume", req.kind, "success",
                                       SuccessDelay(req.kind), p)
              /\ UNCHANGED error
       ELSE /\ error' = IF outcome = "false" THEN FailureMessage(req.kind)
                        ELSE "An unexpected error occurred"
            /\ lastEvent' = Event("resume", req.kind, "error", 0, UNDEFINED)
            /\ UNCHANGED <<success, generatedPassphrase, timers, successes>>
    /\ UNCHANGED <<isSignup, showPassphrasePopup, formData, tempLoginData,
                   onSuccessCalls, formMounted>>
    /\ UNCHANGED <<serverVars, bootVars>>

\* The X button of the popup.
DismissPopup ==
    /\ formMounted
    /\ showPassphrasePopup
    /\ showPassphrasePopup' = FALSE
    /\ tempLoginData' = NoLoginData
    /\ formData' = DismissFormData(formData)
    /\ lastEvent' = Event("dismiss", "none", "none", 0, UNDEFINED)
    /\ UNCHANGED <<isSignup, generatedPassphrase, error, success, loading,
                   pending, timers, onSuccessCalls, successes, formMounted>>
    /\ UNCHANGED <<serverVars, bootVars>>

\* The button under the main view's form that switches signup and login.
ToggleMode ==
    /\ formMounted
    /\ ~showPassphrasePopup
    /\ isSignup' = ~isSignup
    /\ error' = ""
    /\ success' = ""
    /\ generatedPassphrase' = ""
    /\ formData' = ToggleFormData(formData)
    /\ lastEvent' = Event("toggle", "none", "none", 0, UNDEFINED)
    /\ UNCHANGED <<showPassphrasePopup, loading, tempLoginData, pending, timers,
                   onSuccessCalls, successes, formMounted>>
    /\ UNCHANGED <<serverVars, bootVars>>

\* A timer fires: onSuccess().  The surrounding UI may then close the form.
TimerFires(ms) ==
    /\ BagIn(ms, timers)
    /\ timers' = timers (-) SetToBag({ms})
    /\ onSuccessCalls' = onSuccessCalls + 1
    /\ \E closes \in BOOLEAN : formMounted' = (formMounted /\ ~closes)
    /\ lastEvent' = Event("timer", "none", "none", ms, UNDEFINED)
    /\ UNCHANGED <<isSignup, showPassphrasePopup, formData, generatedPassphrase,
                   error, success, loading, tempLoginData, pending, successes>>
    /\ UNCHANGED <<serverVars, bootVars>>

FormNext ==
    \/ \E field \in DOMAIN EmptyForm :
          \E value \in FieldValues(field) : HandleInputChange(field, value)
    \/ HandleSubmit
    \/ HandlePassphraseSubmit
    \/ \E req \in BagToSet(pending), outcome \in CallOutcomes :
          Resume(req, outcome)
    \/ DismissPopup
    \/ ToggleMode
    \/ \E ms \in {SignupDelayMs, LoginDelayMs} : TimerFires(ms)

\* ------------------------------------------------------------------------

Init == ServerInit /\ BootInit /\ FormInit

Spec == Init /\ [][Next]_vars

BootSpec == Init /\ [][BootNext]_vars

\* mongoose.connect settles (its timeouts are finite), the timer of a retry
\* fires, and the continuation of await connectDB() runs.
BootFairSpec ==
    /\ Init
    /\ [][BootNext]_vars
    /\ WF_vars(ConnectSucceeds \/ ConnectFails)
    /\ WF_vars(RetryConnect)
    /\ WF_vars(InitializeApp)

FormSpec == Init /\ [][FormNext]_vars

\* A timer that has been set fires.
FormFairSpec ==
    /\ Init
    /\ [][FormNext]_vars
    /\ \A ms \in {SignupDelayMs, LoginDelayMs} : WF_vars(TimerFires(ms))

\* ------------------------------------------------------------------------
\* Properties of registerUser

\* C1: a registration for the address 'admin@zamanix.com' is answered 400
\* 'This email cannot be used for registration' whatever the other fields
\* are, having called neither the store, the passphrase generator nor the
\* token issuer and having left the store as it was; such a request never
\* reaches User.create.
C1_ReservedIdentity ==
    /\ (last.op = "register" /\ last.email = "admin@zamanix.com") =>
          /\ last.resp = ErrorResponse(400, "This email cannot be used for registration")
          /\ last.resp.passphrase = UNDEFINED
          /\ last.resp.token = UNDEFINED
          /\ last.calls = <<>>
          /\ ~last.wrote
    /\ \A doc \in BagToSet(inflight) : doc.email # "admin@zamanix.com"

\* The reserved address is refused on a store that already holds a user.
C1_Witness ==
    /\ last.op = "register"
    /\ last.email = "admin@zamanix.com"
    /\ last.resp.code = 400
    /\ users # {}

\* The stored record of every registration answered 201 is still the one
\* that registration created.
RecordsKept ==
    \A r \in regs :
       \E u \in users :
          /\ u._id = r.resp._id
          /\ u.name = r.resp.name
          /\ u.email = r.resp.email
          /\ u.phone = r.resp.phone
          /\ u.password = HashPassword(r.password)
          /\ u.passphrase = PassphraseMaterial(r.resp.passphrase)

\* C2: once a registration for an email has been answered 201, a
\* registration for the same email that completes afterwards is answered 400
\* with status 'error', no passphrase and no token, and writes nothing: the
\* first user's stored record stays as it was created.
C2_DuplicateIdentity ==
    /\ (/\ last.op = "register"
        /\ \E r \in regs : r.reqEmail = last.email /\ r.resp # last.resp) =>
          /\ last.resp.code = 400
          /\ last.resp.status = "error"
          /\ last.resp.passphrase = UNDEFINED
          /\ last.resp.token = UNDEFINED
          /\ last.resp._id = UNDEFINED
          /\ ~last.wrote
    /\ RecordsKept

\* A second registration for a registered email was refused by the store.
C2_Witness ==
    /\ last.op = "register"
    /\ last.resp.code = 400
    /\ last.resp.message = DuplicateKeyMessage
    /\ \E r \in regs : r.reqEmail = last.email

\* C3: whatever the interleaving of the registrations in flight, the store
\* holds at most one user per email, at most one registration per email is
\* answered 201 (with passphrase and token), and every other completed
\* registration is answered 400.
C3_UniqueUnderConcurrency ==
    /\ \A u1, u2 \in users : u1.email = u2.email => u1 = u2
    /\ \A r1, r2 \in regs : r1.reqEmail = r2.reqEmail => r1 = r2
    /\ \A r \in regs : /\ r.resp.code = 201
                       /\ Truthy(r.resp.passphrase)
                       /\ Truthy(r.resp.token)
    /\ last.op = "register" =>
          \/ last.resp.code = 201 /\ \E r \in regs : r.resp = last.resp
          \/ last.resp.code = 400 /\ ~last.wrote

\* One registration is answered 201 while another one for the same email,
\* accepted before the store answered, is still in flight.
C3_Witness ==
    /\ last.op = "register"
    /\ last.resp.code = 201
    /\ \E doc \in BagToSet(inflight) : doc.email = last.email

\* ------------------------------------------------------------------------
\* Properties of loginUser

\* The administrative credential pair.
IsSentinel(email, password) ==
    email = "admin@zamanix.com" /\ password = "zamanix_admin"

CallsOf(exchange) == {exchange.calls[i] : i \in DOMAIN exchange.calls}

\* C4: a login that carries the email and password of a registration
\* answered 201 and the passphrase that registration returned, and that is
\* processed without an exception, is answered 200 with the id, name, email
\* and phone of the registration response and a token bound to that id.
C4_RoundTrip ==
    (last.op = "login" /\ ~last.threw) =>
       \A r \in regs :
          (/\ r.reqEmail = last.email
           /\ r.password = last.password
           /\ r.resp.passphrase = last.passphrase) =>
             /\ last.resp.code = 200
             /\ last.resp.status = "success"
             /\ last.resp._id = r.resp._id
             /\ last.resp.name = r.resp.name
             /\ last.resp.email = r.resp.email
             /\ last.resp.phone = r.resp.phone
             /\ last.resp.token = GenerateToken(r.resp._id)

\* A login with a registration's own email (not in normal form), password
\* and passphrase has been answered.
C4_Witness ==
    /\ last.op = "login"
    /\ ~last.threw
    /\ last.email # NormalizeEmail(last.email)
    /\ \E r \in regs : /\ r.reqEmail = last.email
                       /\ r.password = last.password
                       /\ r.resp.passphrase = last.passphrase
                       /\ last.resp._id = r.resp._id

\* C5: a login, other than the administrative pair, for a stored user with
\* the right password and a supplied (non-empty) passphrase that does not
\* verify is answered 401 'Invalid passphrase' without a token, which is not
\* the response given for a wrong password or an unknown email.
C5_InvalidPassphrase ==
    LET user == UserFindOne(users, last.email)
    IN  (/\ last.op = "login"
         /\ ~last.threw
         /\ ~IsSentinel(last.email, last.password)
         /\ user # NoUser
         /\ MatchPassword(user, last.password)
         /\ last.passphrase \notin {UNDEFINED, ""}
         /\ ~VerifyPassphrase(user, last.passphrase)) =>
           /\ last.resp = ErrorResponse(401, "Invalid passphrase")
           /\ last.resp.token = UNDEFINED
           /\ "generateToken" \notin CallsOf(last)
           /\ last.resp # PasswordMismatchResponse
           /\ last.resp # UserNotFoundResponse

\* The right password with another generated passphrase has been refused.
C5_Witness ==
    /\ last.op = "login"
    /\ last.resp.message = "Invalid passphrase"
    /\ last.passphrase \in GeneratedPassphrases
    /\ MatchPassword(UserFindOne(users, last.email), last.password)

\* The login requests for an email without a stored user, and those for a
\* stored email with a wrong password.
UnknownEmailLogins(excludeSentinel) ==
    {x \in Emails \X Passwords \X RequestPassphrases :
        /\ UserFindOne(users, x[1]) = NoUser
        /\ ~(excludeSentinel /\ IsSentinel(x[1], x[2]))}

WrongPasswordLogins(excludeSentinel) ==
    {x \in Emails \X Passwords \X RequestPassphrases :
        /\ UserFindOne(users, x[1]) # NoUser
        /\ ~MatchPassword(UserFindOne(users, x[1]), x[2])
        /\ ~(excludeSentinel /\ IsSentinel(x[1], x[2]))}

ResponseTo(x) == LoginOutcome(users, x[1], x[2], x[3], "none").resp

C7_AdminNeedsSentinelPassword ==
    (/\ last.op = "login"
     /\ last.email = "admin@zamanix.com"
     /\ last.password # "zamanix_admin") =>
       /\ last.resp.code # 200
       /\ last.resp.status # "success"
       /\ last.resp.token = UNDEFINED

\* C8: a login with the administrative pair is answered 200 with _id
\* 'admin' and token 'admin_token' in every store state and whatever call
\* would fail, having called neither the store nor the token issuer; the
\* passphrase of the request is not looked at.
C8_AdminBypass ==
    (last.op = "login" /\ IsSentinel(last.email, last.password)) =>
       /\ last.resp = Response(200, "success", UNDEFINED, "admin", "Admin",
                               "admin@zamanix.com", UNDEFINED, UNDEFINED,
                               "admin_token")
       /\ last.calls = <<>>
       /\ ~last.wrote
       /\ ~last.threw

\* The administrative pair has been answered, with a passphrase in the
\* request, on a store that holds a user under the administrative address.
C8_Witness ==
    /\ last.op = "login"
    /\ IsSentinel(last.email, last.password)
    /\ last.passphrase \in GeneratedPassphrases
    /\ last.resp.token = "admin_token"
    /\ UserFindOne(users, "admin@zamanix.com") # NoUser

\* C9: a login, other than the administrative pair, for a stored user with
\* the right password and no passphrase (absent or empty), processed without
\* an exception, is answered 200 with a token bound to the user's id, and
\* verifyPassphrase is not called.
C9_PassphraseOptional ==
    LET user == UserFindOne(users, last.email)
    IN  (/\ last.op = "login"
         /\ ~last.threw
         /\ ~IsSentinel(last.email, last.password)
         /\ user # NoUser
         /\ MatchPassword(user, last.password)
         /\ last.passphrase \in {UNDEFINED, ""}) =>
           /\ last.resp.code = 200
           /\ last.resp.status = "success"
           /\ last.resp._id = user._id
           /\ last.resp.token = GenerateToken(user._id)
           /\ "verifyPassphrase" \notin CallsOf(last)

\* A login with the right password and an empty passphrase has succeeded.
C9_Witness ==
    /\ last.op = "login"
    /\ last.passphrase = ""
    /\ last.resp.code = 200
    /\ last.resp._id # "admin"

\* C10: a login is answered 500 exactly when the lookup or a verification
\* threw; that response is 'Server error occurred', carries no token, and
\* the token issuer was not called.
C10_ServerError ==
    last.op = "login" =>
       /\ last.threw <=> last.resp.code = 500
       /\ last.threw =>
             /\ last.resp = ErrorResponse(500, "Server error occurred")
             /\ last.resp.token = UNDEFINED
             /\ "generateToken" \notin CallsOf(last)
       /\ last.resp.code \in {200, 401, 500}

\* The passphrase verification of a login threw and was answered 500.
C10_Witness ==
    /\ last.op = "login"
    /\ last.threw
    /\ "verifyPassphrase" \in CallsOf(last)
    /\ last.resp.code = 500

\* ------------------------------------------------------------------------
\* Properties of the two handlers together

\* C11: a response carries a passphrase only if it is the 201 response of a
\* registration, and the step that produces it is the one that creates the
\* user holding that passphrase's material, so each user's plaintext
\* passphrase is in exactly one response; no login response, success or
\* error, carries a passphrase; a login writes nothing to the store; the
\* store only grows, so a stored record (its passphrase material included)
\* never changes after its creation.
C11_OneTimeDisclosure ==
    /\ [](/\ last.op = "login" =>
              last.resp.passphrase = UNDEFINED /\ ~last.wrote
          /\ last.op = "register" =>
              (last.resp.passphrase # UNDEFINED <=> last.resp.code = 201)
          /\ \A u \in users :
                Cardinality({r \in regs :
                    /\ r.resp._id = u._id
                    /\ PassphraseMaterial(r.resp.passphrase) = u.passphrase}) = 1)
    /\ [][/\ users \subseteq users'
          /\ last'.op = "login" => users' = users
          /\ last'.resp.passphrase # UNDEFINED =>
                /\ last'.op = "register"
                /\ last'.resp.code = 201
                /\ \E u \in users' \ users :
                      /\ users' = users \cup {u}
                      /\ u._id = last'.resp._id
                      /\ u.passphrase = PassphraseMaterial(last'.resp.passphrase)
                      /\ \A v \in users : v._id # u._id]_vars

\* A login carrying the passphrase a registration returned has succeeded for
\* a user of a store that holds two users.
C11_Witness ==
    /\ last.op = "login"
    /\ last.resp.code = 200
    /\ Cardinality(users) = 2
    /\ \E r \in regs : /\ r.resp._id = last.resp._id
                       /\ r.resp.passphrase = last.passphrase

\* C13: a login response with a token other than the administrative one
\* comes from a request in which matchPassword was called, and the token is
\* bound to the id of the stored user whose email is the request's email (in
\* the store's normal form) and whose stored hash is that of the request's
\* password; a response of either handler with code 400, 401 or 500, or with
\* status 'error', carries no token.
C13_TokenBinding ==
    /\ (/\ last.op = "login"
        /\ last.resp.token # UNDEFINED
        /\ last.resp.token # "admin_token") =>
          /\ "matchPassword" \in CallsOf(last)
          /\ \E u \in users :
                /\ u.email = NormalizeEmail(last.email)
                /\ u.password = HashPassword(last.password)
                /\ last.resp.token = GenerateToken(u._id)
                /\ last.resp._id = u._id
    /\ (last.resp.code \in {400, 401, 500} \/ last.resp.status = "error") =>
          last.resp.token = UNDEFINED

\* A token has been issued to one of two stored users that have the same
\* password, for a request whose email is not in normal form.
C13_Witness ==
    /\ last.op = "login"
    /\ last.resp.token \notin {UNDEFINED, "admin_token"}
    /\ last.email # NormalizeEmail(last.email)
    /\ \E u, v \in users : u # v /\ u.password = v.password

\* ------------------------------------------------------------------------
\* Properties of the bootstrap (server/index.js)

\* C14: connectDB makes at most 6 connection attempts; only the last attempt
\* made can be a success, so there is no retry after a success; it returns
\* true exactly when the last attempt succeeded and false exactly when 6
\* attempts failed; the delay waited before the first retry is 5000 ms and
\* each later one is exactly 1.5 times the one before, hence larger; and
\* connectDB eventually returns.
C14_BootstrapTerminates ==
    /\ [](/\ Len(attempts) <= 6
          /\ \A i \in 1..(Len(attempts) - 1) : attempts[i] = "error"
          /\ returned = "true" <=>
                (attempts # <<>> /\ attempts[Len(attempts)] = "ok")
          /\ returned = "false" <=>
                (Len(attempts) = 6 /\ \A i \in 1..6 : attempts[i] = "error")
          /\ Len(waits) <= 5
          /\ Len(waits) \in {Len(attempts) - 1, Len(attempts)}
          /\ waits # <<>> => waits[1] = 4 * 5000
          /\ \A i \in 1..(Len(waits) - 1) :
                /\ 2 * waits[i + 1] = 3 * waits[i]
                /\ waits[i + 1] > waits[i])
    /\ <>(returned # "pending")

\* The sixth attempt has failed after five waits, the last of 25312.5 ms.
C14_Witness ==
    /\ returned = "false"
    /\ Len(attempts) = 6
    /\ Len(waits) = 5
    /\ waits[5] = 101250

\* C12: the server is or has been listening, the routers are mounted, or a
\* request has been served, only if connectDB returned true and dbConnected
\* is set; once connectDB has returned false the server never listens, no
\* router is mounted, no request is served, the only exit code is 1, and the
\* process does exit with code 1.
C12_ListenAfterConnect ==
    /\ []((listening \/ listened \/ mounted \/ served # {}) =>
             (returned = "true" /\ dbConnected))
    /\ [](returned = "false" =>
             /\ ~listening /\ ~listened /\ ~mounted /\ served = {}
             /\ exitCode \in {NotExited, 1})
    /\ (returned = "false") ~> (exitCode = 1 /\ ~listened)

\* A request to /api/users has been served by a server whose database
\* connection succeeded at a retry.
C12_Witness ==
    /\ "/api/users" \in served
    /\ Len(attempts) > 1
    /\ returned = "true"

\* ------------------------------------------------------------------------
\* Properties of the client's login form (src/components/LoginForm.tsx)

\* C15: the passphrase popup opens only in a submit of the main form made in
\* login mode with a non-empty email, a non-empty password and an email
\* other than 'admin@zamanix.com', which keeps that email and password; a
\* submit in login mode with the email 'admin@zamanix.com' does not open the
\* popup and, given a password, calls login with that email and password and
\* no passphrase; while that call is awaited and when it settles, as a
\* success or as an error, the popup is not shown.
C15_PopupOnlyForNonAdminLogin ==
    /\ [][(showPassphrasePopup' /\ ~showPassphrasePopup) =>
            /\ lastEvent'.type = "submit"
            /\ ~isSignup
            /\ formData.email # ""
            /\ formData.password # ""
            /\ formData.email # "admin@zamanix.com"
            /\ tempLoginData' = [email |-> formData.email,
                                 password |-> formData.password]]_vars
    /\ [][(/\ lastEvent'.type = "submit"
           /\ ~isSignup
           /\ formData.email = "admin@zamanix.com") =>
            /\ ~showPassphrasePopup'
            /\ lastEvent'.outcome \in {"awaiting", "error"}
            /\ formData.password # "" =>
                  pending' = pending (+) SetToBag({
                      Request("adminLogin", UNDEFINED, "admin@zamanix.com",
                              formData.password, UNDEFINED, UNDEFINED,
                              UNDEFINED)})]_vars
    /\ [](\A req \in BagToSet(pending) :
             req.kind = "adminLogin" =>
                ~showPassphrasePopup /\ req.passphrase = UNDEFINED)
    /\ [][(lastEvent'.type = "resume" /\ lastEvent'.kind = "adminLogin") =>
            /\ ~showPassphrasePopup'
            /\ lastEvent'.outcome \in {"success", "error"}]_vars

\* The login of the administrative email has settled as a success, in the
\* main view.
C15_Witness ==
    /\ lastEvent = Event("resume", "adminLogin", "success", 1500, UNDEFINED)
    /\ ~showPassphrasePopup
    /\ formData.email = "admin@zamanix.com"

\* C16: the toggle flips the mode, empties the five fields of the form and
\* clears the error message, the success message and the generated
\* passphrase, in whatever state of the main view it is pressed.
C16_ToggleResets ==
    [][lastEvent'.type = "toggle" =>
         /\ isSignup' = ~isSignup
         /\ formData' = [name |-> "", email |-> "", password |-> "",
                         phone |-> "", passphrase |-> ""]
         /\ error' = ""
         /\ success' = ""
         /\ generatedPassphrase' = ""]_vars

\* The toggle has been pressed while a signup, submitted with its fields
\* filled, was awaited and a timer of an earlier success was running.
C16_Witness ==
    /\ lastEvent.type = "toggle"
    /\ ~isSignup
    /\ \E req \in BagToSet(pending) : req.kind = "signup"
    /\ timers # EmptyBag

\* C17: a step that ends in an error (missing fields, a failed signup, a
\* failed admin login, a failed passphrase login, an exception) sets one of
\* the error messages and changes no field of the form; the form itself
\* empties a non-empty passphrase field only in the dismissal of the popup
\* (the other way for it to become empty is the user's own edit); the
\* dismissal closes the popup, discards tempLoginData and changes no other
\* field; outside the popup the passphrase field is empty.
C17_ErrorKeepsFields ==
    /\ [][lastEvent'.outcome = "error" =>
            /\ error' \in {"All fields are required",
                            "Email and password are required",
                            "Failed to create account", "Invalid credentials",
                            "Invalid passphrase", "An unexpected error occurred"}
            /\ formData' = formData]_vars
    /\ [][(formData.passphrase # "" /\ formData'.passphrase = "") =>
            lastEvent'.type \in {"dismiss", "input"}]_vars
    /\ [][lastEvent'.type = "dismiss" =>
            /\ ~showPassphrasePopup'
            /\ tempLoginData' = NoLoginData
            /\ formData'.passphrase = ""
            /\ formData'.name = formData.name
            /\ formData'.email = formData.email
            /\ formData'.password = formData.password
            /\ formData'.phone = formData.phone]_vars
    /\ [](~showPassphrasePopup => formData.passphrase = "")

\* A passphrase login has failed and the passphrase typed is still in the
\* field, with the email and password of the main form.
C17_Witness ==
    /\ lastEvent = Event("resume", "passphraseLogin", "error", 0, UNDEFINED)
    /\ error = "Invalid passphrase"
    /\ formData.passphrase # ""
    /\ formData.email = "bob@x.com"

\* C18: a success sets the success message of its kind and sets one timer
\* for onSuccess, of 5000 ms for a signup and 1500 ms for a login, in a step
\* that does not call onSuccess; no other step sets a timer; onSuccess is
\* called only by a timer that a success has set, once per timer, so never
\* without a success before it; and each success is followed by its call.
C18_SuccessThenCallback ==
    /\ [][lastEvent'.outcome = "success" =>
            /\ success' = (IF lastEvent'.kind = "signup"
                             THEN "Account created successfully! Please save your passphrase:"
                           ELSE "Login successful!")
            /\ timers' = timers (+)
                  SetToBag({IF lastEvent'.kind = "signup" THEN 5000 ELSE 1500})
            /\ successes' = successes + 1
            /\ onSuccessCalls' = onSuccessCalls]_vars
    /\ [][lastEvent'.outcome # "success" =>
            /\ successes' = successes
            /\ timers' # timers =>
                  /\ lastEvent'.type = "timer"
                  /\ BagIn(lastEvent'.ms, timers)
                  /\ timers' = timers (-) SetToBag({lastEvent'.ms})
                  /\ onSuccessCalls' = onSuccessCalls + 1
            /\ timers' = timers => onSuccessCalls' = onSuccessCalls]_vars
    /\ [](onSuccessCalls + BagCardinality(timers) = successes)
    /\ \A n \in 1..MaxSuccesses : (successes >= n) ~> (onSuccessCalls >= n)

\* onSuccess has been called by the timer of a signup, after an error.
C18_Witness ==
    /\ lastEvent = Event("timer", "none", "none", 5000, UNDEFINED)
    /\ onSuccessCalls = 1
    /\ successes = 1
    /\ error # ""

\* C19 as stated: after a successful signup the passphrase shown under the
\* success message is the one the server generated for that registration.
C19_ShowsServerPassphrase ==
    (lastEvent.kind = "signup" /\ lastEvent.outcome = "success") =>
       generatedPassphrase = lastEvent.passphrase

\* C20 as stated: onSuccess is called at most once.
C20_OnSuccessAtMostOnce == onSuccessCalls <= 1

====
